---- MODULE Spec2Model ----
(***************************************************************************)
(* A model of ProjectTwo.cpp, the course advising program: the Driver's    *)
(* session (menu, loadCourses, printCourses, search), the BinarySearchTree *)
(* of Course records and the PrereqHashTable of prerequisite course ids.   *)
(*                                                                         *)
(* A std::string is a sequence of character codes (ASCII).  The tree is a  *)
(* heap of Node records addressed by index, 0 standing for nullptr.  The   *)
(* 64-bit member `num` of the Prerequisite union is kept as its 8 bytes    *)
(* (little endian, as the union lays it out over courseId).                *)
(***************************************************************************)
EXTENDS Integers, Sequences, FiniteSets, TLC

\* ------------------------------------------------------------------------
\* Bounds of the model
\* ------------------------------------------------------------------------

\* the number of lines loadCourses reads from the csv file before the file
\* ends
MaxLines == 2

\* the number of times the user picks "Load Courses" in one session
MaxLoads == 2

\* ------------------------------------------------------------------------
\* Program constants
\* ------------------------------------------------------------------------

\* #define DEFAULT_PREREQUISITE_TABLE_SIZE 27
DEFAULT_PREREQUISITE_TABLE_SIZE == 27

\* char courseId[8], overlaid with u_int64_t num
CourseIdBytes == 8

\* id.copy(this->courseId, 7)
CopyCount == 7

\* number.size() != 7, courseNumber.size() != 7
CourseNumberSize == 7

\* ------------------------------------------------------------------------
\* Characters and strings
\* ------------------------------------------------------------------------

\* the character code of a character written as a one-character string;
\* "CR" is the carriage return
Ord(c) ==
    CASE c = "CR" -> 13 [] c = "," -> 44
      [] c = "0" -> 48 [] c = "1" -> 49 [] c = "2" -> 50 [] c = "3" -> 51
      [] c = "4" -> 52 [] c = "5" -> 53 [] c = "6" -> 54 [] c = "9" -> 57
      [] c = "A" -> 65 [] c = "B" -> 66 [] c = "C" -> 67 [] c = "D" -> 68
      [] c = "E" -> 69 [] c = "F" -> 70 [] c = "I" -> 73 [] c = "S" -> 83
      [] c = "Z" -> 90

\* the std::string holding the given characters
Str(t) == [i \in 1..Len(t) |-> Ord(t[i])]

\* the delimiter of Course::init: char delim = ','
delim == Ord(",")

\* std::string operator< : lexicographic over the characters, a proper
\* prefix being less
RECURSIVE StrLess(_, _)
StrLess(a, b) ==
    IF b = <<>> THEN FALSE
    ELSE IF a = <<>> THEN TRUE
    ELSE IF Head(a) # Head(b) THEN Head(a) < Head(b)
    ELSE StrLess(Tail(a), Tail(b))

\* ------------------------------------------------------------------------
\* struct Prerequisite
\* ------------------------------------------------------------------------

\* Prerequisite(): this->num = 0
Prerequisite == [i \in 1..CourseIdBytes |-> 0]

\* Prerequisite::load: id.copy(this->courseId, 7) overwrites the first
\* min(7, id.size()) bytes and leaves the others as they were
load(p, id) ==
    [i \in 1..CourseIdBytes |->
        IF i <= CopyCount /\ i <= Len(id) THEN id[i] ELSE p[i]]

\* this->num % cap for the 8 bytes p of num, least significant first: the
\* value is p[1] + 256 * (p[2] + 256 * (... + 256 * p[8])), reduced modulo
\* cap at each byte so that no intermediate value leaves 32 bits
NumMod(p, cap) ==
    (p[1] + 256 * ((p[2] + 256 * ((p[3] + 256 * ((p[4] + 256 * ((p[5] + 256 *
        ((p[6] + 256 * ((p[7] + 256 * (p[8] % cap)) % cap)) % cap))
            % cap)) % cap)) % cap)) % cap)) % cap

\* Prerequisite::hash: (this->num + idx) % cap
hash(p, idx, cap) == (NumMod(p, cap) + idx) % cap

\* Prerequisite::getString: string out(this->courseId), the bytes before
\* the first null byte
getString(p) ==
    LET n == CHOOSE k \in 1..CourseIdBytes :
                 /\ p[k] = 0
                 /\ \A j \in 1..(k - 1) : p[j] # 0
    IN  SubSeq(p, 1, n - 1)

\* Prerequisite::empty: this->num == 0
PrerequisiteEmpty(p) == p = Prerequisite

\* ------------------------------------------------------------------------
\* class PrereqHashTable
\* ------------------------------------------------------------------------

\* PrereqHashTable(cap): capacity = cap, items = new Prerequisite[cap]; the
\* default constructor is PrereqHashTable(0), which has no item
PrereqHashTable(cap) ==
    [capacity |-> cap, items |-> [i \in 0..(cap - 1) |-> Prerequisite]]

\* PrereqHashTable::getCapacity
getCapacity(table) == table.capacity

\* PrereqHashTable::getItems
getItems(table) == table.items

\* the loop of PrereqHashTable::insert from probe index idx on
RECURSIVE insertProbe(_, _, _)
insertProbe(table, prereq, idx) ==
    IF idx >= table.capacity THEN table
    ELSE LET h == hash(prereq, idx, table.capacity)
         IN  IF table.items[h] = prereq THEN table
             ELSE IF table.items[h] = Prerequisite
                  THEN [table EXCEPT !.items[h] = prereq]
                  ELSE insertProbe(table, prereq, idx + 1)

\* PrereqHashTable::insert
insert(table, courseId) == insertProbe(table, load(Prerequisite, courseId), 0)

\* ------------------------------------------------------------------------
\* struct Course
\* ------------------------------------------------------------------------

\* a Course as default constructed, and as Course::clear leaves it
Course == [number |-> <<>>, title |-> <<>>, prerequisites |-> <<>>]

\* Course::empty
CourseEmpty(course) == course.number = <<>>

\* stringstream stream(line)
stringstream(line) == [buf |-> line, eof |-> FALSE, fail |-> FALSE]

\* the position of the first delimiter in buf, 0 when there is none
RECURSIVE findDelim(_, _)
findDelim(buf, i) ==
    IF i > Len(buf) THEN 0
    ELSE IF buf[i] = delim THEN i
    ELSE findDelim(buf, i + 1)

\* getline(stream, str, delim): on a stream that is not good, str is left
\* alone; otherwise str becomes the characters before the next delimiter,
\* which is consumed, or the rest of the stream, which sets eofbit (and
\* failbit when nothing was extracted)
getline(stream, str) ==
    IF stream.eof \/ stream.fail
    THEN [stream |-> [stream EXCEPT !.fail = TRUE], str |-> str]
    ELSE LET i == findDelim(stream.buf, 1)
         IN  IF i > 0
             THEN [stream |-> [buf  |-> SubSeq(stream.buf, i + 1, Len(stream.buf)),
                               eof  |-> FALSE,
                               fail |-> FALSE],
                   str    |-> SubSeq(stream.buf, 1, i - 1)]
             ELSE [stream |-> [buf  |-> <<>>,
                               eof  |-> TRUE,
                               fail |-> stream.buf = <<>>],
                   str    |-> stream.buf]

\* the loop as it would be if it skipped the empty fields only
RECURSIVE initPrerequisitesKeepCR(_)
initPrerequisitesKeepCR(s) ==
    IF s.stream.eof THEN s
    ELSE LET g  == getline(s.stream, <<>>)
             pr == g.str
         IN  IF pr = <<>>
             THEN initPrerequisitesKeepCR([s EXCEPT !.stream = g.stream])
             ELSE initPrerequisitesKeepCR(
                      [stream        |-> g.stream,
                       prerequisites |-> Append(s.prerequisites, pr),
                       table         |-> insert(s.table, pr)])

\* the loop of Course::init that reads the prerequisites: while
\* (!stream.eof()) { getline(stream, pr, delim); ... }, on the stream, the
\* prerequisites of the Course and the table in s
RECURSIVE initPrerequisites(_)
initPrerequisites(s) ==
    IF s.stream.eof THEN s
    ELSE LET g  == getline(s.stream, <<>>)
             pr == g.str
         IN  IF (Len(pr) = 1 /\ pr[1] = Ord("CR")) \/ pr = <<>>
             THEN initPrerequisites([s EXCEPT !.stream = g.stream])
             ELSE initPrerequisites(
                      [stream        |-> g.stream,
                       prerequisites |-> Append(s.prerequisites, pr),
                       table         |-> insert(s.table, pr)])

\* init as it would be if it rejected only the course numbers that are too
\* short
initShortOnly(line, table) ==
    LET n == getline(stringstream(line), <<>>)
    IN  IF Len(n.str) < CourseNumberSize
        THEN [what |-> "Error: invalid course number",
              course |-> Course, table |-> table]
        ELSE LET t == getline(n.stream, <<>>)
             IN  IF t.str = <<>>
                 THEN [what |-> "Error: empty course title",
                       course |-> Course, table |-> table]
                 ELSE LET p == initPrerequisites(
                                   [stream        |-> t.stream,
                                    prerequisites |-> <<>>,
                                    table         |-> table])
                      IN  [what   |-> "",
                           course |-> [number        |-> n.str,
                                       title         |-> t.str,
                                       prerequisites |-> p.prerequisites],
                           table  |-> p.table]

\* Course::init on a default constructed Course: the exception thrown
\* ("" when none), the Course and the hash table afterwards
init(line, table) ==
    LET n == getline(stringstream(line), <<>>)
    IN  IF Len(n.str) # CourseNumberSize
        THEN [what |-> "Error: invalid course number",
              course |-> Course, table |-> table]
        ELSE LET t == getline(n.stream, <<>>)
             IN  IF t.str = <<>>
                 THEN [what |-> "Error: empty course title",
                       course |-> Course, table |-> table]
                 ELSE LET p == initPrerequisites(
                                   [stream        |-> t.stream,
                                    prerequisites |-> <<>>,
                                    table         |-> table])
                      IN  [what   |-> "",
                           course |-> [number        |-> n.str,
                                       title         |-> t.str,
                                       prerequisites |-> p.prerequisites],
                           table  |-> p.table]

\* Course::display: "number, title"
display(course) == <<course.number, course.title>>

\* ------------------------------------------------------------------------
\* struct Node, class BinarySearchTree
\* ------------------------------------------------------------------------

\* Node(course): both children nullptr
Node(course) == [course |-> course, left |-> 0, right |-> 0]

\* BinarySearchTree(): root = nullptr
BinarySearchTree == [root |-> 0, nodes |-> <<>>]

\* BinarySearchTree::addNode
RECURSIVE addNode(_, _, _)
addNode(nodes, node, course) ==
    IF StrLess(course.number, nodes[node].course.number)
    THEN IF nodes[node].left = 0
         THEN [Append(nodes, Node(course)) EXCEPT ![node].left = Len(nodes) + 1]
         ELSE addNode(nodes, nodes[node].left, course)
    ELSE IF nodes[node].right = 0
         THEN [Append(nodes, Node(course)) EXCEPT ![node].right = Len(nodes) + 1]
         ELSE addNode(nodes, nodes[node].right, course)

\* BinarySearchTree::inOrder: the lines displayed, in order
RECURSIVE inOrder(_, _)
inOrder(nodes, node) ==
    IF node = 0 THEN <<>>
    ELSE inOrder(nodes, nodes[node].left)
         \o <<display(nodes[node].course)>>
         \o inOrder(nodes, nodes[node].right)

\* drain as it would be if it released nothing
drainNothing(t) == t

\* BinarySearchTree::drain: delete root deletes every node, root = nullptr
drain(t) == [root |-> 0, nodes |-> <<>>]

\* BinarySearchTree::InOrder
InOrder(t) == inOrder(t.nodes, t.root)

\* BinarySearchTree::Insert
Insert(t, course) ==
    IF t.root = 0
    THEN [root |-> Len(t.nodes) + 1, nodes |-> Append(t.nodes, Node(course))]
    ELSE [root |-> t.root, nodes |-> addNode(t.nodes, t.root, course)]

\* the loop of Search as it would be if it descended to the wrong side
RECURSIVE SearchFromWrongSide(_, _, _)
SearchFromWrongSide(nodes, currentNode, courseNumber) ==
    IF currentNode = 0 THEN Course
    ELSE IF nodes[currentNode].course.number = courseNumber
         THEN nodes[currentNode].course
         ELSE SearchFromWrongSide(nodes,
                         IF StrLess(courseNumber, nodes[currentNode].course.number)
                         THEN nodes[currentNode].right
                         ELSE nodes[currentNode].left,
                         courseNumber)

\* the loop of BinarySearchTree::Search from currentNode on
RECURSIVE SearchFrom(_, _, _)
SearchFrom(nodes, currentNode, courseNumber) ==
    IF currentNode = 0 THEN Course
    ELSE IF nodes[currentNode].course.number = courseNumber
         THEN nodes[currentNode].course
         ELSE SearchFrom(nodes,
                         IF StrLess(courseNumber, nodes[currentNode].course.number)
                         THEN nodes[currentNode].left
                         ELSE nodes[currentNode].right,
                         courseNumber)

\* BinarySearchTree::Search
Search(t, courseNumber) == SearchFrom(t.nodes, t.root, courseNumber)

\* BinarySearchTree::Exists
Exists(t, courseNumber) == Search(t, courseNumber).number # <<>>

\* ------------------------------------------------------------------------
\* The csv file
\* ------------------------------------------------------------------------

\* n prerequisite fields, each a comma and one letter: ",a,b,c" and so on
manyPrerequisites(n) ==
    [i \in 1..(2 * n) |-> IF i % 2 = 1 THEN delim ELSE 96 + (i \div 2)]

\* the lines the csv file is made of: courses with and without
\* prerequisites, a prerequisite followed by the carriage return of a
\* CR/LF line end, a prerequisite that is no course, given twice around an
\* empty field, a course number that is too short and one that is too long,
\* an empty and a missing title, a course number given twice, empty fields
\* and a lone carriage return, and a course with one prerequisite more than
\* the table has slots
Lines ==
    { Str(<<"C","S","C","I","1","0","0",",","A">>),
      Str(<<"C","S","C","I","2","0","0",",","B",",","C","S","C","I","1","0","0">>),
      Str(<<"C","S","C","I","3","0","0",",","C",",","C","S","C","I","1","0","0","CR">>),
      Str(<<"C","S","C","I","4","0","0",",","D",",","C","S","C","I","9","9","9",
            ",",",","C","S","C","I","9","9","9">>),
      Str(<<"C","S","1","0",",","E",",">>),
      Str(<<"C","S","C","I","5","0","0",",",",","C","S","C","I","1","0","0">>),
      Str(<<"C","S","C","I","5","0","0">>),
      Str(<<"C","S","C","I","2","0","0",",","Z",",",",","CR">>),
      Str(<<"C","S","C","I","6","0","0","0",",","F">>),
      Str(<<"C","S","C","I","6","0","0",",","F">>)
          \o manyPrerequisites(DEFAULT_PREREQUISITE_TABLE_SIZE + 1) }

\* the lines of a long csv file: one course for every slot of the table,
\* "CSCI101,A" and so on, a course that has all of them as prerequisites,
\* and a course with a prerequisite that is no course
longKey(i) ==
    Str(<<"C","S","C","I","1">>) \o <<Ord("0") + (i \div 10), Ord("0") + (i % 10)>>
longCourse(i) == longKey(i) \o Str(<<",","A">>)
allPrerequisites(n) ==
    [j \in 1..(8 * n) |-> IF (j - 1) % 8 = 0 THEN delim
                          ELSE longKey((j - 1) \div 8 + 1)[(j - 1) % 8]]
manyLine ==
    Str(<<"C","S","C","I","6","0","0",",","F">>)
        \o allPrerequisites(DEFAULT_PREREQUISITE_TABLE_SIZE)
unresolvedLine ==
    Str(<<"C","S","C","I","4","0","0",",","D",",","C","S","C","I","9","9","9">>)

\* the lines the long file can have after the lines read: it begins with
\* the two other lines, in either order, with one of them or with none, and
\* goes on with the courses in their order
LongLines(read) ==
    LET others  == { i \in DOMAIN read : read[i] \in {manyLine, unresolvedLine} }
        courses == Len(read) - Cardinality(others)
    IN  (IF courses = 0
         THEN {manyLine, unresolvedLine} \ { read[i] : i \in DOMAIN read }
         ELSE {})
        \cup (IF courses < DEFAULT_PREREQUISITE_TABLE_SIZE
              THEN {longCourse(courses + 1)} ELSE {})

\* ------------------------------------------------------------------------
\* class Driver
\* ------------------------------------------------------------------------

VARIABLES
    pc,           \* where the session is: "menu", "reading" (the while loop of
                  \* loadCourses), "validating" (the file is closed),
                  \* "terminated" (an exception left main), "exited"
    tree,         \* Driver::tree
    prereqTable,  \* Driver::prereqTable
    infs,         \* the lines getline(infs, line) has read from the file
                  \* that loadCourses opened last
    num,          \* loadCourses' num: the courses inserted so far
    what,         \* the message of the exception thrown, "" when none
    cout,         \* what the operation chosen last wrote to stdout
    cerr,         \* what the operation chosen last wrote to stderr
    loads,        \* the number of times loadCourses was called
    lastInfs,     \* the lines the previous call of loadCourses read
    lastListing   \* what InOrder would list when loadCourses was called last

vars == <<pc, tree, prereqTable, infs, num, what, cout, cerr, loads,
          lastInfs, lastListing>>

\* nothing written
Silent == [text |-> "", body |-> <<>>]

\* the loop of Driver::checkPrerequisites from slot i on: whether every
\* prerequisite exists, and the course reported on stderr when one does not
RECURSIVE checkPrerequisitesFrom(_, _, _)
checkPrerequisitesFrom(t, table, i) ==
    IF i >= getCapacity(table) THEN [ok |-> TRUE, course |-> <<>>]
    ELSE LET prerequisites == getItems(table)
         IN  IF /\ ~PrerequisiteEmpty(prerequisites[i])
                /\ ~Exists(t, getString(prerequisites[i]))
             THEN [ok |-> FALSE, course |-> getString(prerequisites[i])]
             ELSE checkPrerequisitesFrom(t, table, i + 1)

\* Driver::checkPrerequisites
checkPrerequisites(t, table) == checkPrerequisitesFrom(t, table, 0)

\* Driver::Driver and main: an empty tree, a table of the default size
Init ==
    /\ pc = "menu"
    /\ tree = BinarySearchTree
    /\ prereqTable = PrereqHashTable(DEFAULT_PREREQUISITE_TABLE_SIZE)
    /\ infs = <<>>
    /\ num = 0
    /\ what = ""
    /\ cout = Silent
    /\ cerr = Silent
    /\ loads = 0
    /\ lastInfs = <<>>
    /\ lastListing = <<>>

\* Driver::loadCourses, up to the while loop: num = 0, tree.drain(),
\* infs.open(csvPath)
loadCourses ==
    /\ pc = "menu"
    /\ loads < MaxLoads
    /\ infs' = <<>>
    /\ num' = 0
    /\ tree' = drain(tree)
    /\ pc' = "reading"
    /\ cout' = Silent
    /\ cerr' = Silent
    /\ loads' = loads + 1
    /\ lastInfs' = infs
    /\ lastListing' = InOrder(tree)
    /\ UNCHANGED <<prereqTable, what>>

\* one turn of the while loop of loadCourses: getline(infs, line) reads the
\* next line of the file, whatever the file holds there, then
\* course.init(line, prereqTable), tree.Insert(course), num++.  An
\* exception of init is caught nowhere and ends the process.
readLine ==
    /\ pc = "reading"
    /\ Len(infs) < MaxLines
    /\ \E line \in Lines :
          LET r == init(line, prereqTable)
          IN  /\ infs' = Append(infs, line)
              /\ prereqTable' = r.table
              /\ IF r.what # ""
                 THEN /\ what' = r.what
                      /\ pc' = "terminated"
                      /\ UNCHANGED <<tree, num>>
                 ELSE /\ tree' = Insert(tree, r.course)
                      /\ num' = num + 1
                      /\ UNCHANGED <<pc, what>>
    /\ UNCHANGED <<cout, cerr, loads, lastInfs, lastListing>>

\* one turn of the while loop of loadCourses on the long file
readLongLine ==
    /\ pc = "reading"
    /\ \E line \in LongLines(infs) :
          LET r == init(line, prereqTable)
          IN  /\ infs' = Append(infs, line)
              /\ prereqTable' = r.table
              /\ IF r.what # ""
                 THEN /\ what' = r.what
                      /\ pc' = "terminated"
                      /\ UNCHANGED <<tree, num>>
                 ELSE /\ tree' = Insert(tree, r.course)
                      /\ num' = num + 1
                      /\ UNCHANGED <<pc, what>>
    /\ UNCHANGED <<cout, cerr, loads, lastInfs, lastListing>>

\* the end of the while loop: getline fails at the end of the file (at
\* once when the file could not be opened), infs.close()
closeFile ==
    /\ pc = "reading"
    /\ pc' = "validating"
    /\ UNCHANGED <<tree, prereqTable, infs, num, what, cout, cerr, loads,
                   lastInfs, lastListing>>

\* the rest of loadCourses as it would be if run caught the exception and
\* showed the menu again
validateCaught ==
    /\ pc = "validating"
    /\ LET c == checkPrerequisites(tree, prereqTable)
       IN  IF c.ok
           THEN /\ cout' = [text |-> "Loaded", body |-> <<num>>]
                /\ pc' = "menu"
                /\ UNCHANGED <<cerr, what>>
           ELSE /\ cerr' = [text |-> "Prerequisite course does not exist",
                            body |-> <<c.course>>]
                /\ what' = "Prerequisite course check failed"
                /\ pc' = "menu"
                /\ UNCHANGED cout
    /\ UNCHANGED <<tree, prereqTable, infs, num, loads, lastInfs, lastListing>>

\* the rest of loadCourses: checkPrerequisites(), then either the
\* exception, caught nowhere, or "Loaded num courses"
validate ==
    /\ pc = "validating"
    /\ LET c == checkPrerequisites(tree, prereqTable)
       IN  IF c.ok
           THEN /\ cout' = [text |-> "Loaded", body |-> <<num>>]
                /\ pc' = "menu"
                /\ UNCHANGED <<cerr, what>>
           ELSE /\ cerr' = [text |-> "Prerequisite course does not exist",
                            body |-> <<c.course>>]
                /\ what' = "Prerequisite course check failed"
                /\ pc' = "terminated"
                /\ UNCHANGED cout
    /\ UNCHANGED <<tree, prereqTable, infs, num, loads, lastInfs, lastListing>>

\* Driver::printCourses
printCourses ==
    /\ pc = "menu"
    /\ cout' = [text |-> "Here is a sample schedule:", body |-> InOrder(tree)]
    /\ cerr' = Silent
    /\ UNCHANGED <<pc, tree, prereqTable, infs, num, what, loads, lastInfs,
                   lastListing>>

\* the course numbers the user asks about
Queries ==
    { Str(<<"C","S","C","I","1","0","0">>),
      Str(<<"C","S","C","I","9","9","9">>),
      Str(<<"C","S","1","0">>) }

\* search as it would be if a course number of the wrong size were thrown as
\* an exception
searchThrowing ==
    /\ pc = "menu"
    /\ \E courseNumber \in Queries :
          IF courseNumber = <<>> \/ Len(courseNumber) # CourseNumberSize
          THEN /\ cerr' = [text |-> "Invalid course number", body |-> <<>>]
               /\ cout' = Silent
               /\ pc' = "terminated"
          ELSE LET course == Search(tree, courseNumber)
               IN  /\ cerr' = Silent
                   /\ cout' = IF CourseEmpty(course)
                              THEN [text |-> "No matching course found.",
                                    body |-> <<>>]
                              ELSE [text |-> "details", body |-> <<course>>]
                   /\ pc' = pc
    /\ UNCHANGED <<tree, prereqTable, infs, num, what, loads, lastInfs,
                   lastListing>>

\* Driver::search
search ==
    /\ pc = "menu"
    /\ \E courseNumber \in Queries :
          IF courseNumber = <<>> \/ Len(courseNumber) # CourseNumberSize
          THEN /\ cerr' = [text |-> "Invalid course number", body |-> <<>>]
               /\ cout' = Silent
          ELSE LET course == Search(tree, courseNumber)
               IN  /\ cerr' = Silent
                   /\ cout' = IF CourseEmpty(course)
                              THEN [text |-> "No matching course found.",
                                    body |-> <<>>]
                              ELSE [text |-> "details", body |-> <<course>>]
    /\ UNCHANGED <<pc, tree, prereqTable, infs, num, what, loads, lastInfs,
                   lastListing>>

\* the menu choice Exit of Driver::run
exit ==
    /\ pc = "menu"
    /\ pc' = "exited"
    /\ cout' = [text |-> "Thank you for using the course planner!", body |-> <<>>]
    /\ cerr' = Silent
    /\ UNCHANGED <<tree, prereqTable, infs, num, what, loads, lastInfs,
                   lastListing>>

\* Driver::run: one step of the session
Next ==
    \/ loadCourses
    \/ readLine
    \/ closeFile
    \/ validate
    \/ printCourses
    \/ search
    \/ exit

Spec == Init /\ [][Next]_vars

\* Driver::run on the long file
NextLong ==
    \/ loadCourses
    \/ readLongLine
    \/ closeFile
    \/ validate
    \/ printCourses
    \/ search
    \/ exit

SpecLong == Init /\ [][NextLong]_vars

\* Driver::loadCourses from the first line to its end, as a function of the
\* lines of the file and of the table: s holds the lines, the number of
\* lines read, the tree and the table
RECURSIVE loadCoursesFrom(_)
loadCoursesFrom(s) ==
    IF s.read >= Len(s.csv)
    THEN IF checkPrerequisites(s.tree, s.table).ok THEN "Ready" ELSE "Failed"
    ELSE LET r == init(s.csv[s.read + 1], s.table)
         IN  IF r.what # "" THEN "Failed"
             ELSE loadCoursesFrom([csv   |-> s.csv,
                                   read  |-> s.read + 1,
                                   tree  |-> Insert(s.tree, r.course),
                                   table |-> r.table])

\* how the first load of a session ends on the file csv
FirstLoad(csv) ==
    loadCoursesFrom([csv   |-> csv,
                     read  |-> 0,
                     tree  |-> drain(BinarySearchTree),
                     table |-> PrereqHashTable(DEFAULT_PREREQUISITE_TABLE_SIZE)])

\* ------------------------------------------------------------------------
\* The vocabulary of the properties
\* ------------------------------------------------------------------------

\* the states of a load: Loading, Validating, Ready, Failed
Loading == pc = "reading"
Validating == pc = "validating"
Ready == loads > 0 /\ pc \in {"menu", "exited"}
Failed == pc = "terminated"
FailedByParse ==
    Failed /\ what \in {"Error: invalid course number", "Error: empty course title"}
FailedByValidation == Failed /\ what = "Prerequisite course check failed"

\* the position of the first comma of a line from character i on, one past
\* the end of the line when there is none
RECURSIVE FirstCommaFrom(_, _)
FirstCommaFrom(line, i) ==
    IF i > Len(line) THEN Len(line) + 1
    ELSE IF line[i] = Ord(",") THEN i
    ELSE FirstCommaFrom(line, i + 1)

\* the position of the first comma of a line, one past its end when it has
\* none
FirstComma(line) == FirstCommaFrom(line, 1)

\* the fields of a line, the texts between its commas, from character i on:
\* s holds the line, i, the field begun and the fields ended
RECURSIVE FieldsFrom(_)
FieldsFrom(s) ==
    IF s.i > Len(s.line) THEN Append(s.fields, s.field)
    ELSE IF s.line[s.i] = Ord(",")
         THEN FieldsFrom([s EXCEPT !.i = s.i + 1,
                                   !.field = <<>>,
                                   !.fields = Append(s.fields, s.field)])
         ELSE FieldsFrom([s EXCEPT !.i = s.i + 1,
                                   !.field = Append(s.field, s.line[s.i])])

\* the fields of a line
Fields(line) ==
    FieldsFrom([line |-> line, i |-> 1, field |-> <<>>, fields |-> <<>>])

\* the key field and the title field of a line (no title when the line has
\* no second field)
KeyField(line) == SubSeq(line, 1, FirstComma(line) - 1)
TitleField(line) == KeyField(SubSeq(line, FirstComma(line) + 1, Len(line)))

\* a prerequisite field that is skipped: empty, or a lone carriage return
Skipped(f) == f = <<>> \/ f = <<Ord("CR")>>

\* the prerequisite keys of a line: its fields after the title that are not
\* skipped
PrerequisiteFields(line) ==
    LET f == Fields(line)
    IN  SelectSeq(SubSeq(f, 3, Len(f)), LAMBDA x : ~Skipped(x))

\* a well-formed record line
WellFormed(line) ==
    Len(KeyField(line)) = CourseNumberSize /\ TitleField(line) # <<>>

\* the elements of a sequence
Range(f) == { f[i] : i \in DOMAIN f }

\* the course keys and the prerequisite keys of a catalog
CourseKeys(csv) == { KeyField(csv[i]) : i \in DOMAIN csv }
PrerequisiteKeys(csv) == UNION { Range(PrerequisiteFields(csv[i])) : i \in DOMAIN csv }

\* a catalog of well-formed records whose prerequisite keys are all keys of
\* courses of the catalog
ValidCatalog(csv) ==
    /\ \A i \in DOMAIN csv : WellFormed(csv[i])
    /\ PrerequisiteKeys(csv) \subseteq CourseKeys(csv)

\* the records held in the Store: the courses of the nodes reached from root
RECURSIVE held(_, _)
held(nodes, node) ==
    IF node = 0 THEN {}
    ELSE {nodes[node].course} \cup held(nodes, nodes[node].left)
                              \cup held(nodes, nodes[node].right)
Held == held(tree.nodes, tree.root)

\* the records loadCourses has passed to Insert since it drained the tree,
\* in order
Inserted == [i \in 1..num |-> init(infs[i], PrereqHashTable(0)).course]

\* the keys the properties ask about: the keys of the given records, the
\* keys the user asks about and the empty key
AskedKeys(records) == { c.number : c \in records } \cup Queries \cup {<<>>}

\* ------------------------------------------------------------------------
\* Properties
\* ------------------------------------------------------------------------

\* C1: in Ready, every prerequisite key of every record held in the Store is
\* the key of a record held in the Store
C1_PrerequisitesResolve ==
    Ready =>
        \A c \in Held : \A p \in Range(c.prerequisites) :
            \E d \in Held : d.number = p

\* C2: a load of a valid catalog does not end in Failed (it ends in Ready),
\* the first load and every later one
C2_ValidCatalogReady ==
    (Failed /\ loads > 0) => ~ValidCatalog(infs)

\* C3: a load that failed by validation reports a prerequisite key of its
\* input that is the key of no record in the Store; and a load of well-formed
\* records with exactly one prerequisite key K that is no course of the input
\* fails by validation and reports K
C3_UnresolvedReported ==
    /\ FailedByValidation =>
           /\ cerr.body[1] \in PrerequisiteKeys(infs)
           /\ \A c \in Held : c.number # cerr.body[1]
    /\ \A K \in PrerequisiteKeys(infs) :
           ( /\ Ready \/ FailedByValidation
             /\ \A i \in DOMAIN infs : WellFormed(infs[i])
             /\ PrerequisiteKeys(infs) \ CourseKeys(infs) = {K} )
           => (FailedByValidation /\ cerr.body = <<K>>)

\* C4: the in-order listing shows the keys in strictly increasing order
C4_InOrderStrictlyIncreasing ==
    LET l == InOrder(tree)
    IN  \A i \in 1..(Len(l) - 1) : StrLess(l[i][1], l[i + 1][1])

\* C5: Search(k) returns a record that was inserted with key k when there is
\* one and the empty Course when there is none, and Exists(k) tells which
C5_SearchFindsInserted ==
    \A inserted \in {Range(Inserted)} :
        \A k \in AskedKeys(inserted) :
            LET with == { c \in inserted : c.number = k }
            IN  IF with = {}
                THEN Search(tree, k) = Course /\ ~Exists(tree, k)
                ELSE Search(tree, k) \in with /\ Exists(tree, k)

\* a record that is not at the root was found, and a key was not found
C5_Witness ==
    /\ pc = "menu"
    /\ num = 2
    /\ cout.text = "details"
    /\ cout.body[1] # tree.nodes[tree.root].course
    /\ \E k \in Queries : Len(k) = CourseNumberSize /\ ~Exists(tree, k)

\* C6: every key registered during the load is held by exactly one slot of
\* the table
C6_RegisteredOnce ==
    \A c \in Range(Inserted) : \A p \in Range(c.prerequisites) :
        Cardinality({ i \in DOMAIN prereqTable.items :
                        prereqTable.items[i] = load(Prerequisite, p) }) = 1

\* C7: a load that reads the valid catalog the load before it read ends in
\* Ready, with the listing the Store had after the load before
C7_ReloadSameListing ==
    ( /\ loads >= 2
      /\ Ready \/ Failed
      /\ infs = lastInfs
      /\ ValidCatalog(infs) )
    => (Ready /\ InOrder(tree) = lastListing)

\* the same valid catalog of two courses was loaded twice in a row
C7_Witness ==
    /\ loads = 2
    /\ Ready
    /\ infs = lastInfs
    /\ ValidCatalog(infs)
    /\ Len(infs) = 2
    /\ Len(lastListing) = 2

\* C8: from the start of a load on, the Store holds the records of this
\* load's lines and no other: the listing has one entry for each record
\* inserted, and Search finds nothing else
C8_StoreOfThisLoadOnly ==
    loads > 0 =>
        \A inserted \in {Range(Inserted)} :
            /\ Len(InOrder(tree)) = num
            /\ Range(InOrder(tree)) = { display(c) : c \in inserted }
            /\ Held = inserted
            /\ \A k \in AskedKeys(inserted \cup Held) :
                   Search(tree, k) \in inserted \cup {Course}
            /\ (Loading /\ infs = <<>>) => tree = BinarySearchTree

\* a second load has read a first line, and its record is none of the two
\* that the Store listed before
C8_Witness ==
    /\ loads = 2
    /\ Len(lastListing) = 2
    /\ num = 1
    /\ display(Inserted[1]) \notin Range(lastListing)

\* C9: every line the load went past has a key field of 7 characters and a
\* title; the load fails at a line with "invalid course number" exactly when
\* the key field is not 7 characters long, with "empty course title" exactly
\* when it is and the title field is empty or missing, and the record of the
\* failing line is not inserted
C9_InitRejectsMalformed ==
    /\ \A i \in 1..num : WellFormed(infs[i])
    /\ Failed \/ Len(infs) = num
    /\ FailedByValidation => Len(infs) = num
    /\ FailedByParse =>
           /\ Len(infs) = num + 1
           /\ (what = "Error: invalid course number")
                  <=> (Len(KeyField(infs[num + 1])) # CourseNumberSize)
           /\ (what = "Error: empty course title")
                  <=> ( /\ Len(KeyField(infs[num + 1])) = CourseNumberSize
                        /\ TitleField(infs[num + 1]) = <<>> )
           /\ Len(InOrder(tree)) = num
           /\ Len(tree.nodes) = num

\* a load failed at its second line, whose key field is 7 characters long and
\* whose title is empty or missing
C9_Witness ==
    /\ FailedByParse
    /\ what = "Error: empty course title"
    /\ num = 1
    /\ Len(KeyField(infs[2])) = CourseNumberSize

\* C10: after a load failed at a malformed line the Store holds no record
C10_AbortLeavesStoreEmpty ==
    FailedByParse => Held = {}

\* C11: the prerequisites of every record parsed from a line are the fields
\* of the line after the title, in the order of the line, without the fields
\* that are empty or a lone carriage return and with nothing else dropped or
\* altered; the number and the title are the first two fields
C11_PrerequisitesAreTheFields ==
    /\ Len(tree.nodes) = num
    /\ \A i \in 1..num : \A f \in {Fields(infs[i])} :
           /\ Len(f) >= 2
           /\ tree.nodes[i].course.number = f[1]
           /\ tree.nodes[i].course.title = f[2]
           /\ tree.nodes[i].course.prerequisites
                  = SelectSeq(SubSeq(f, 3, Len(f)), LAMBDA x : ~Skipped(x))

\* a record was parsed from a line that has the same prerequisite twice and
\* an empty field between, another from a line whose fields after the title
\* are all skipped, one of them a lone carriage return
C11_Witness ==
    /\ num = 2
    /\ \E i \in 1..2 :
           /\ Len(tree.nodes[i].course.prerequisites) = 2
           /\ tree.nodes[i].course.prerequisites[1]
                  = tree.nodes[i].course.prerequisites[2]
           /\ Len(Fields(infs[i])) = 5
    /\ \E i \in 1..2 :
           /\ tree.nodes[i].course.prerequisites = <<>>
           /\ <<Ord("CR")>> \in Range(Fields(infs[i]))

\* C12: once a load has failed, at a malformed line or at a prerequisite that
\* does not exist, the session lists no courses and looks no course up: every
\* listing and every lookup is made while no load has thrown
C12_NoServiceAfterFailed ==
    [][(printCourses \/ search) => (~Failed /\ what = "")]_vars

\* a load failed at a prerequisite that does not exist while the Store held
\* the records of its lines
C12_Witness ==
    /\ FailedByValidation
    /\ num = 2
    /\ Held # {}
    /\ InOrder(tree) # <<>>

\* C13: a lookup, whatever its outcome, and a listing leave the tree as it
\* was, node for node, throw nothing and return to the menu, where every
\* operation can be chosen again
C13_QueriesChangeNothing ==
    [][(printCourses \/ search) =>
           /\ tree' = tree
           /\ prereqTable' = prereqTable
           /\ what' = what
           /\ pc' = "menu"]_vars

\* a course number of the wrong size was asked about while the Store held
\* two records
C13_Witness ==
    /\ pc = "menu"
    /\ cerr.text = "Invalid course number"
    /\ num = 2
    /\ Len(InOrder(tree)) = 2

\* C14: when a load starts to read its file the table holds no key, and
\* during a load every key the table holds is a prerequisite of a line read
\* by this load
C14_TableOfThisLoadOnly ==
    /\ (Loading /\ infs = <<>>) =>
           prereqTable = PrereqHashTable(DEFAULT_PREREQUISITE_TABLE_SIZE)
    /\ (Loading \/ Validating) =>
           \A i \in DOMAIN prereqTable.items :
               \/ PrerequisiteEmpty(prereqTable.items[i])
               \/ \E p \in PrerequisiteKeys(infs) :
                      prereqTable.items[i] = load(Prerequisite, p)

\* C15: every key that was passed to insert during the load is held by a
\* slot of the table, and so is among the keys checkPrerequisites visits,
\* however many keys were passed
C15_RegisteredIsVisited ==
    \A n \in 1..Len(tree.nodes) :
        \A p \in Range(tree.nodes[n].course.prerequisites) :
            \E i \in DOMAIN prereqTable.items :
                prereqTable.items[i] = load(Prerequisite, p)

\* C16: a load whose records have a prerequisite that is not 7 characters
\* long does not end in Ready: it fails at the prerequisite check
C16_MalformedPrerequisiteFails ==
    ( /\ Ready \/ Failed
      /\ Len(infs) = num
      /\ \E n \in 1..Len(tree.nodes) :
             \E p \in Range(tree.nodes[n].course.prerequisites) :
                 Len(p) # CourseNumberSize )
    => FailedByValidation

\* the lines of csv with line i and line i + 1 in the other order
Swapped(csv, i) ==
    [j \in DOMAIN csv |-> IF j = i THEN csv[i + 1]
                          ELSE IF j = i + 1 THEN csv[i]
                          ELSE csv[j]]

\* C17: the prerequisites are checked when every line was read, so that a
\* load ends in the same way on the same lines in another order: the first
\* load of a session ends as it would with any two neighbouring lines
\* exchanged
C17_OrderOfLinesIrrelevant ==
    (loads = 1 /\ (Ready \/ Failed)) =>
        \A i \in 1..(Len(infs) - 1) :
            FirstLoad(Swapped(infs, i)) = (IF Ready THEN "Ready" ELSE "Failed")

\* C18: no two nodes of the tree hold the same course number, the listing
\* shows every course number once, and Search returns for every course
\* number the record that was inserted with it last
C18_OneRecordPerKey ==
    /\ \A i, j \in 1..Len(tree.nodes) :
           i # j => tree.nodes[i].course.number # tree.nodes[j].course.number
    /\ \A i, j \in 1..Len(InOrder(tree)) :
           i # j => InOrder(tree)[i][1] # InOrder(tree)[j][1]
    /\ \A i \in 1..Len(tree.nodes) :
           ( \A j \in (i + 1)..Len(tree.nodes) :
                 tree.nodes[j].course.number # tree.nodes[i].course.number )
           => Search(tree, tree.nodes[i].course.number) = tree.nodes[i].course

====
